---- MODULE Spec2Model ----
(***************************************************************************)
(* Rivulex subscriber runtime: one consumer group reading one Redis stream *)
(* through several subscribers.  Each subscriber runs a live loop          *)
(* (XREADGROUP ">") and a pending loop (XPENDING IDLE + XCLAIM); both hand *)
(* their batches to the Processor, which runs processUnit for every event  *)
(* inside a PromisePool with a concurrency bound and a task timeout.       *)
(*                                                                         *)
(* Time is abstracted: an entry of the pending list is either younger than *)
(* ackTimeout or idle for at least ackTimeout; a pool task either is still *)
(* racing its processTimeout timer or has lost the race.                   *)
(***************************************************************************)
EXTENDS Naturals, Sequences, FiniteSets

\* ---------------------------------------------------------------- bounds
MaxEvents == 1          \* records appended to the stream
MaxRetries == 2         \* SubscriberConfig.retries ranges over 1..MaxRetries
MaxConcurrency == 2     \* SubscriberConfig.processConcurrency in 1..MaxConcurrency
MaxDeliveries == 3      \* cap of the delivery counter of a pending entry
MaxAcks == 1            \* how often one handler invocation calls event.ack()
MaxBatch == 3           \* events of one batch handed to Processor.process
MaxLive == 2            \* events of one XREADGROUP reply of the live loop

Subs == {"s1", "s2"}    \* subscribers (clientIds) of the group
Group == "g"            \* the group of every subscriber
Solo == "s1"            \* the subscriber of the single-subscriber runs
Handlers == {"a1"}      \* actions with a registered handler (Channel.handlers)
Kinds == { [action |-> "a1", rejectedGroup |-> "none"],
           [action |-> "a2", rejectedGroup |-> "none"],
           [action |-> "a1", rejectedGroup |-> "other"],
           [action |-> "a2", rejectedGroup |-> "other"] }

VARIABLES
    retries,            \* Processor.retries
    processConcurrency, \* Processor.processConcurrency
    stream,             \* the source stream: sequence of appended records
    lastId,             \* the group's last-delivered id (cursor of ">")
    pel,                \* pending entries list: id -> [count, idle]
    deadLetter,         \* the dead_letter stream: sequence of appended copies
    units,              \* processUnit runs, one per delivered event
    pcFailed,           \* position of each subscriber's pending loop
    scanned,            \* XPENDING reply held by each pending loop: {<<id, attempt>>}
    hooks,              \* hooks emitted so far: {<<name, unit>>}
    closed,             \* subscribers whose stop() has closed the Redis connection
    subscriber,         \* Subscriber: enabled flag, its connection, listen/stop promises
    publisher,          \* Publisher: the publish / publishBatch call in progress
    trimmer,            \* Trimmer instances, the clock and the coordination key
    config,             \* a configuration value and the field constructed from it
    retrier,            \* Retrier: one retry() call and the attempts it has made
    backoff,            \* Backoff: minInterval, maxInterval, currentInterval
    decode,             \* one fetched batch of raw records on its way to the processor
    rejection,          \* one rejectEvent call: the event and the dead_letter copy
    capability,         \* the ack function of one delivery and the calls made on it
    listening,          \* listen and stop calls in progress, the consumers they built
    timers              \* the timers Trimmer.start has scheduled

vars == <<retries, processConcurrency, stream, lastId, pel, deadLetter,
          units, pcFailed, scanned, hooks, closed,
          subscriber, publisher, trimmer, config,
          retrier, backoff, decode, rejection, capability, listening, timers>>

\* the utilities: Retrier, Backoff, Formatter and the dead-letter encoding
tools == <<retrier, backoff, decode, rejection, capability, listening, timers>>

\* the state outside the processor and the consumer loops
ext == <<subscriber, publisher, trimmer, config, tools>>

Ids == 1..MaxEvents
UnitIds == DOMAIN units

\* ------------------------------------------------------------ the Redis log
\* An acknowledgement that brings an absent entry back as a fresh delivery.
XAckRestoring(p, id) ==
    IF id \in DOMAIN p
    THEN [i \in DOMAIN p \ {id} |-> p[i]]
    ELSE [i \in DOMAIN p \cup {id} |->
            IF i = id THEN [count |-> 1, idle |-> FALSE] ELSE p[i]]

\* XACK stream group id: drops the entry from the pending list (a no-op if absent).
XAck(p, id) == [i \in DOMAIN p \ {id} |-> p[i]]

\* XREADGROUP/XCLAIM deliver an entry: delivery counter up, idle time reset.
Deliver(p, ids) ==
    [i \in DOMAIN p \cup ids |->
        IF i \in ids
        THEN [count |-> IF i \in DOMAIN p THEN p[i].count + 1 ELSE 1, idle |-> FALSE]
        ELSE p[i]]

\* XPENDING stream group IDLE ackTimeout - + count: the idle entries with
\* their delivery counters.
XPending(p) == { <<i, p[i].count>> : i \in { j \in DOMAIN p : p[j].idle } }

\* XCLAIM stream group consumer ackTimeout ids...: the ids that are still
\* pending and idle for at least ackTimeout.
XClaimable(p, ids) == { i \in ids : i \in DOMAIN p /\ p[i].idle }

\* ------------------------------------------------------------ the processor
\* A processor that grants one attempt more than configured.
hasToBeRejectedStrict(attempt) == attempt > retries

\* Processor.hasToBeRejected
hasToBeRejected(attempt) == attempt >= retries

\* A processor that skips the rejected records of its own group only.
isForOwnGroup(ev) == ev.rejectedGroup = Group

\* processUnit's first decision for an event (before any await).
isForAnotherGroup(ev) == ev.rejectedGroup # "none" /\ ev.rejectedGroup # Group
hasHandler(ev) == ev.action \in Handlers

\* A processor that tests the attempt before it looks up the handler.
DecisionRejectFirst(id, attempt) ==
    IF isForAnotherGroup(stream[id]) THEN "skipping"
    ELSE IF hasToBeRejected(attempt) THEN "rejecting"
    ELSE IF ~hasHandler(stream[id]) THEN "skipping"
    ELSE "running"

Decision(id, attempt) ==
    IF isForAnotherGroup(stream[id]) THEN "skipping"
    ELSE IF ~hasHandler(stream[id]) THEN "skipping"
    ELSE IF hasToBeRejected(attempt) THEN "rejecting"
    ELSE "running"

NewUnit(s, loop, id, attempt) ==
    [sub |-> s, loop |-> loop, id |-> id, attempt |-> attempt,
     phase |-> "queued", settled |-> FALSE, invoked |-> FALSE, acks |-> 0,
     late |-> FALSE, inTime |-> FALSE, threw |-> FALSE, escaped |-> FALSE]

\* The units of a batch, in the order of the ids.
RECURSIVE BatchUnits(_, _, _, _)
BatchUnits(s, loop, ids, att) ==
    IF ids = {} THEN <<>>
    ELSE LET i == CHOOSE x \in ids : \A y \in ids : x <= y
         IN <<NewUnit(s, loop, i, att[i])>> \o BatchUnits(s, loop, ids \ {i}, att)

\* The tasks of the process call a loop is awaiting.
Unsettled(s, loop) ==
    { u \in UnitIds : units[u].sub = s /\ units[u].loop = loop /\ ~units[u].settled }
Active(s, loop) == { u \in Unsettled(s, loop) : units[u].phase # "queued" }

Emit(name, u) == hooks' = hooks \cup {<<name, u>>}

\* The entry of unit u is still pending from u's own delivery and younger
\* than ackTimeout.
StillOwnDelivery(u) ==
    /\ units[u].id \in DOMAIN pel
    /\ ~pel[units[u].id].idle
    /\ \A v \in UnitIds : v > u => units[v].id # units[u].id

\* ------------------------------------------- the components at construction
Channels == <<"c1", "c2">>   \* the streams registered with Subscriber.stream
ChannelSet == { Channels[i] : i \in DOMAIN Channels }

\* Subscriber fields after the constructor: not enabled, nothing sent on the
\* connection, no listen() or stop() call made.
NoSubscriber ==
    [enabled |-> FALSE, conn |-> <<>>, groups |-> {}, reads |-> {},
     listened |-> "none", thrown |-> {}, stops |-> <<>>, quit |-> FALSE]

MaxEntries == 3         \* events of one publishBatch call
Entries == 1..MaxEntries

\* Publisher fields after the constructor: no listener registered, no call made.
\* published[i] / failed[i] count the PUBLISHED / FAILED emits for entry i.
NoPublisher ==
    [listeners |-> {}, call |-> "none", n |-> 0, pc |-> "idle",
     exec |-> "none", appended |-> {},
     published |-> [i \in Entries |-> 0], failed |-> [i \in Entries |-> 0],
     outcome |-> "none", results |-> <<>>]
\* A configuration value as the constructors receive it: a number, or
\* undefined when the key is absent from the config object.
Given(v) == [supplied |-> TRUE, v |-> v]
NotGiven == [supplied |-> FALSE, v |-> 0]

\* the default of setDefaultMinMax's fourth parameter, which no caller passes
maxValDefault == 1000000

\* utils.setDefaultMinMax(value, defaultVal, minVal, maxVal)
setDefaultMinMax(value, defaultVal, minVal, maxVal) ==
    LET result == IF value.supplied THEN value.v ELSE defaultVal
        raised == IF result < minVal THEN minVal ELSE result
    IN  IF raised > maxVal THEN maxVal ELSE raised

\* the default and the minimum of every parameter, as the classes declare them
Parameters ==
    [retries            |-> [def |-> 3,         min |-> 1],
     blockTime          |-> [def |-> 30000,     min |-> 1000],
     ackTimeout         |-> [def |-> 30000,     min |-> 1000],
     processTimeout     |-> [def |-> 200,       min |-> 20],
     fetchBatchSize     |-> [def |-> 100,       min |-> 1],
     processConcurrency |-> [def |-> 100,       min |-> 1],
     intervalTime       |-> [def |-> 172800000, min |-> 10000],
     retentionPeriod    |-> [def |-> 172800000, min |-> 10000]]
ParameterNames == DOMAIN Parameters

\* the field a constructor stores for parameter p when it is given value
Field(p, value) ==
    setDefaultMinMax(value, Parameters[p].def, Parameters[p].min, maxValDefault)

\* no constructor has run
NoConfig == [param |-> "none", value |-> NotGiven, built |-> FALSE, field |-> 0]

Trimmers == {"t1", "t2"}    \* trimmer instances (clientIds) on the same stream

\* Trimmer fields after the constructor, with the clock, the stream and the
\* coordination key rivulex:trimmer:<stream> they work on.
NewTrimmer(retentionPeriod, intervalTime) ==
    [given |-> [retentionPeriod |-> retentionPeriod, intervalTime |-> intervalTime],
     retentionPeriod |-> Field("retentionPeriod", retentionPeriod),
     intervalTime |-> Field("intervalTime", intervalTime),
     now |-> 0, ticks |-> 0,
     entries |-> {}, deleted |-> {},
     key |-> [set |-> FALSE, expires |-> 0],
     inst |-> [t \in Trimmers |-> [pc |-> "idle", last |-> "none", ttl |-> 0]],
     xtrims |-> <<>>]

NoTrimmer == NewTrimmer(NotGiven, NotGiven)

RETRY == 3               \* the retry count the processor gives its Retrier
Errors == {"e1", "e2", "e3"}   \* errors an operation may reject with

\* Retrier fields after the constructor; log holds the outcome of every
\* invocation of asyncFunc, raised the error retry() rejected with.
NewRetrier(n) ==
    [retries |-> n, attempt |-> 0, pc |-> "idle", log |-> <<>>,
     outcome |-> "none", raised |-> "none"]
NoRetrier == NewRetrier(RETRY)

\* Backoff fields after the constructor; slept is the last delay waited for,
\* last the last method called
NewBackoff(minInterval, maxInterval) ==
    [minInterval |-> minInterval, maxInterval |-> maxInterval,
     currentInterval |-> minInterval, slept |-> 0, last |-> "new", calls |-> 0]
NoBackoff == NewBackoff(0, 0)
\* no batch fetched; batch[i] tells which JSON.parse of record i throws, if any
NoDecode ==
    [loop |-> "none", batch |-> <<>>, pc |-> "idle", dispatched |-> {},
     running |-> TRUE, reclaimed |-> FALSE]
\* a stream record: action, payload as JSON text, headers as decoded key/value map
NoHeaders == [k \in {} |-> "none"]
NoRecord == [action |-> "none", payload |-> "null", headers |-> NoHeaders]

\* rejectEvent has not been called
NoRejection == [event |-> NoRecord, now |-> "t0", done |-> FALSE, copy |-> NoRecord]

\* Subscriber.enabled, the consumer pairs built so far (each with the enabled
\* flag its two consumers share and the loops still iterating), the pair the
\* fields liveConsumer / failedConsumer refer to, and the calls suspended at
\* an await
NoListening ==
    [enabled |-> FALSE, consumers |-> <<>>, current |-> 0, listens |-> 0,
     resuming |-> 0, stops |-> 0, stopping |-> 0, quit |-> FALSE]

\* Trimmer.intervalTime and the delays of the two timers of start()
NewTimers(intervalTime) ==
    [intervalTime |-> Field("intervalTime", intervalTime), started |-> FALSE,
     timeout |-> 0, interval |-> 0]
NoTimers == NewTimers(NotGiven)

\* the entry of the delivery is pending and its handler has not called ack
NoCapability == [pending |-> TRUE, calls |-> <<>>]

NoTools ==
    /\ retrier = NoRetrier
    /\ backoff = NoBackoff
    /\ decode = NoDecode
    /\ rejection = NoRejection
    /\ capability = NoCapability
    /\ listening = NoListening
    /\ timers = NoTimers

NoComponents ==
    /\ subscriber = NoSubscriber
    /\ publisher = NoPublisher
    /\ trimmer = NoTrimmer
    /\ config = NoConfig

Idle ==
    /\ NoTools
    /\ NoComponents

\* ------------------------------------------------------------------- Init
Init ==
    /\ retries \in 1..MaxRetries
    /\ processConcurrency \in 1..MaxConcurrency
    /\ stream = <<>>
    /\ lastId = 0
    /\ pel = <<>>
    /\ deadLetter = <<>>
    /\ units = <<>>
    /\ pcFailed = [s \in Subs |-> "scan"]
    /\ scanned = [s \in Subs |-> {}]
    /\ hooks = {}
    /\ closed = {}
    /\ Idle

\* ---------------------------------------------------------------- actions
\* Publisher.publish: XADD stream * action payload headers
Publish(k) ==
    /\ Len(stream) < MaxEvents
    /\ stream' = Append(stream, k)
    /\ UNCHANGED <<ext, closed, retries, processConcurrency, lastId, pel, deadLetter, units,
                   pcFailed, scanned, hooks>>

\* A pool that picks any queued task of the batch when a slot is free.
StartableAnyOrder(u) ==
    /\ units[u].phase = "queued"
    /\ Cardinality(Active(units[u].sub, units[u].loop)) < processConcurrency

\* A queued task of a batch that the pool starts at once: a slot is free.
Startable(u) ==
    /\ units[u].phase = "queued"
    /\ \A v \in Unsettled(units[u].sub, units[u].loop) :
          units[v].phase = "queued" => u <= v
    /\ Cardinality(Active(units[u].sub, units[u].loop)) < processConcurrency

\* ackTimeout passes without any delivery.  The pool starts a task as soon
\* as a slot is free, so no startable task waits that long.
Elapse ==
    /\ \E i \in DOMAIN pel : ~pel[i].idle
    /\ \A u \in UnitIds : ~Startable(u)
    /\ pel' = [i \in DOMAIN pel |-> [pel[i] EXCEPT !.idle = TRUE]]
    /\ UNCHANGED <<ext, closed, retries, processConcurrency, stream, lastId, deadLetter, units,
                   pcFailed, scanned, hooks>>

\* LiveConsumer.processLiveMessages: XREADGROUP ... STREAMS s ">" returns the
\* new entries, which enter the pending list; the batch goes to process().
ReadLive(s) ==
    /\ s \notin closed
    /\ Unsettled(s, "live") = {}
    /\ lastId < Len(stream)
    /\ LET ids == (lastId + 1)..Len(stream)
       IN /\ pel' = Deliver(pel, ids)
          /\ units' = units \o BatchUnits(s, "live", ids, [i \in ids |-> 0])
    /\ lastId' = Len(stream)
    /\ UNCHANGED <<ext, closed, retries, processConcurrency, stream, deadLetter, pcFailed,
                   scanned, hooks>>

\* FailedConsumer.fetchFailedEvents, first await: XPENDING.
Scan(s) ==
    /\ s \notin closed
    /\ pcFailed[s] = "scan"
    /\ Unsettled(s, "failed") = {}
    /\ XPending(pel) # {}
    /\ scanned' = [scanned EXCEPT ![s] = XPending(pel)]
    /\ pcFailed' = [pcFailed EXCEPT ![s] = "claim"]
    /\ UNCHANGED <<ext, closed, retries, processConcurrency, stream, lastId, pel, deadLetter,
                   units, hooks>>

\* FailedConsumer.fetchFailedEvents, second await: XCLAIM of the scanned ids;
\* each claimed record gets the attempt captured by the scan.
Claim(s) ==
    /\ s \notin closed
    /\ pcFailed[s] = "claim"
    /\ LET ids == XClaimable(pel, { p[1] : p \in scanned[s] })
           att == [i \in ids |-> (CHOOSE p \in scanned[s] : p[1] = i)[2]]
       IN /\ \A i \in ids : pel[i].count < MaxDeliveries
          /\ pel' = Deliver(pel, ids)
          /\ units' = units \o BatchUnits(s, "failed", ids, att)
    /\ scanned' = [scanned EXCEPT ![s] = {}]
    /\ pcFailed' = [pcFailed EXCEPT ![s] = "scan"]
    /\ UNCHANGED <<ext, closed, retries, processConcurrency, stream, lastId, deadLetter, hooks>>

\* PromisePool starts the next task of the batch when a slot is free;
\* processUnit runs up to its first await.
StartUnit(u) ==
    /\ Startable(u)
    /\ LET d == Decision(units[u].id, units[u].attempt)
       IN units' = [units EXCEPT ![u].phase = d, ![u].invoked = (d = "running")]
    /\ UNCHANGED <<ext, closed, retries, processConcurrency, stream, lastId, pel, deadLetter,
                   pcFailed, scanned, hooks>>

\* Processor.skipEvent: XACK, no handler.
SkipEvent(u) ==
    /\ units[u].sub \notin closed
    /\ units[u].phase = "skipping"
    /\ pel' = XAck(pel, units[u].id)
    /\ units' = [units EXCEPT ![u].phase = "done", ![u].settled = TRUE]
    /\ UNCHANGED <<ext, closed, retries, processConcurrency, stream, lastId, deadLetter,
                   pcFailed, scanned, hooks>>

\* Processor.rejectEvent: pipeline XADD dead_letter + XACK, then REJECTED.
RejectEvent(u) ==
    /\ units[u].sub \notin closed
    /\ units[u].phase = "rejecting"
    /\ deadLetter' = Append(deadLetter,
           [src |-> units[u].id, action |-> stream[units[u].id].action,
            rejectedGroup |-> Group])
    /\ pel' = XAck(pel, units[u].id)
    /\ units' = [units EXCEPT ![u].phase = "done", ![u].settled = TRUE]
    /\ Emit("rejected", u)
    /\ UNCHANGED <<ext, closed, retries, processConcurrency, stream, lastId, pcFailed, scanned>>

\* The handler calls event.ack(): Processor.ackEvent does XACK, then CONFIRMED.
HandlerAck(u) ==
    /\ units[u].sub \notin closed
    /\ units[u].phase = "running"
    /\ units[u].acks < MaxAcks
    /\ pel' = XAck(pel, units[u].id)
    /\ units' = [units EXCEPT ![u].acks = @ + 1,
                              ![u].inTime = @ \/ StillOwnDelivery(u)]
    /\ Emit("confirmed", u)
    /\ UNCHANGED <<ext, closed, retries, processConcurrency, stream, lastId, deadLetter,
                   pcFailed, scanned>>

\* The handler's promise resolves.
HandlerReturn(u) ==
    /\ units[u].phase = "running"
    /\ units' = [units EXCEPT ![u].phase = "done", ![u].settled = TRUE]
    /\ UNCHANGED <<ext, closed, retries, processConcurrency, stream, lastId, pel, deadLetter,
                   pcFailed, scanned, hooks>>

\* A catch block that tests the attempt of the delivery instead of the next one.
HandlerThrowSameAttempt(u) ==
    /\ units[u].phase = "running"
    /\ IF hasToBeRejected(units[u].attempt)
       THEN units' = [units EXCEPT ![u].phase = "rejecting", ![u].threw = TRUE]
       ELSE units' = [units EXCEPT ![u].phase = "done", ![u].settled = TRUE,
                                   ![u].threw = TRUE]
    /\ Emit("failed", u)
    /\ UNCHANGED <<ext, closed, retries, processConcurrency, stream, lastId, pel, deadLetter,
                   pcFailed, scanned>>

\* The handler throws: processUnit's catch emits FAILED and rejects when
\* hasToBeRejected(attempt + 1).
HandlerThrow(u) ==
    /\ units[u].phase = "running"
    /\ IF hasToBeRejected(units[u].attempt + 1)
       THEN units' = [units EXCEPT ![u].phase = "rejecting", ![u].threw = TRUE]
       ELSE units' = [units EXCEPT ![u].phase = "done", ![u].settled = TRUE,
                                   ![u].threw = TRUE]
    /\ Emit("failed", u)
    /\ UNCHANGED <<ext, closed, retries, processConcurrency, stream, lastId, pel, deadLetter,
                   pcFailed, scanned>>

\* The task's processTimeout timer wins the race: handleError emits TIMEOUT,
\* the slot is released, processUnit keeps running.
Timeout(u) ==
    /\ units[u].phase \in {"skipping", "rejecting", "running"}
    /\ ~units[u].settled
    /\ units' = [units EXCEPT ![u].settled = TRUE,
                              ![u].late = (units[u].phase = "running")]
    /\ Emit("timeout", u)
    /\ UNCHANGED <<ext, closed, retries, processConcurrency, stream, lastId, pel, deadLetter,
                   pcFailed, scanned>>

\* A subscriber process dies and is started again: its loops restart and
\* everything it had in flight is gone.
Crash(s) ==
    /\ \E u \in UnitIds : units[u].sub = s /\ units[u].phase # "done"
                           /\ units[u].phase # "crashed"
    /\ units' = [u \in UnitIds |->
                   IF units[u].sub = s /\ units[u].phase # "done"
                   THEN [units[u] EXCEPT !.phase = "crashed", !.settled = TRUE]
                   ELSE units[u]]
    /\ pcFailed' = [pcFailed EXCEPT ![s] = "scan"]
    /\ scanned' = [scanned EXCEPT ![s] = {}]
    /\ UNCHANGED <<ext, closed, retries, processConcurrency, stream, lastId, pel, deadLetter, hooks>>

Next ==
    \/ \E k \in Kinds : Publish(k)
    \/ Elapse
    \/ \E s \in Subs : ReadLive(s)
    \/ \E s \in Subs : Scan(s)
    \/ \E s \in Subs : Claim(s)
    \/ \E u \in UnitIds : StartUnit(u)
    \/ \E u \in UnitIds : SkipEvent(u)
    \/ \E u \in UnitIds : RejectEvent(u)
    \/ \E u \in UnitIds : HandlerAck(u)
    \/ \E u \in UnitIds : HandlerReturn(u)
    \/ \E u \in UnitIds : HandlerThrow(u)
    \/ \E u \in UnitIds : Timeout(u)
    \/ \E s \in Subs : Crash(s)

Spec == Init /\ [][Next]_vars

\* ------------------------------------------------- the processor on its own
\* Processor.process called with one batch: the live consumer hands over
\* events with attempt 0, the pending consumer events with the delivery
\* counter of the scan; every event of the batch is pending for the caller.
InitProcessor ==
    /\ retries \in 1..MaxRetries
    /\ processConcurrency \in 1..MaxConcurrency
    /\ \E n \in 1..MaxEvents :
          /\ stream \in [1..n -> Kinds]
          /\ lastId = n
          /\ \E loop \in {"live", "failed"} : \E att \in [1..n -> 0..MaxDeliveries] :
                /\ loop = "live" => \A i \in 1..n : att[i] = 0
                /\ loop = "failed" => \A i \in 1..n : att[i] >= 1
                /\ pel = [i \in 1..n |-> [count |-> att[i] + 1, idle |-> FALSE]]
                /\ units = BatchUnits("s1", loop, 1..n, att)
    /\ deadLetter = <<>>
    /\ pcFailed = [s \in Subs |-> "scan"]
    /\ scanned = [s \in Subs |-> {}]
    /\ hooks = {}
    /\ closed = {}
    /\ Idle

NextProcessor ==
    \/ \E u \in UnitIds : StartUnit(u)
    \/ \E u \in UnitIds : SkipEvent(u)
    \/ \E u \in UnitIds : RejectEvent(u)
    \/ \E u \in UnitIds : HandlerAck(u)
    \/ \E u \in UnitIds : HandlerReturn(u)
    \/ \E u \in UnitIds : HandlerThrow(u)
    \/ \E u \in UnitIds : Timeout(u)

SpecProcessor == InitProcessor /\ [][NextProcessor]_vars

\* Processor.process called with one batch of up to MaxBatch events, read in
\* the order of their ids: a live batch (attempt 0) or a batch claimed after
\* one delivery (attempt 1).
InitBatch ==
    /\ retries \in 1..MaxRetries
    /\ processConcurrency \in 1..MaxConcurrency
    /\ \E n \in 1..MaxBatch :
          /\ stream \in [1..n -> Kinds]
          /\ lastId = n
          /\ \E loop \in {"live", "failed"} :
                LET a == IF loop = "live" THEN 0 ELSE 1
                IN /\ pel = [i \in 1..n |-> [count |-> a + 1, idle |-> FALSE]]
                   /\ units = BatchUnits("s1", loop, 1..n, [i \in 1..n |-> a])
    /\ deadLetter = <<>>
    /\ pcFailed = [s \in Subs |-> "scan"]
    /\ scanned = [s \in Subs |-> {}]
    /\ hooks = {}
    /\ closed = {}
    /\ Idle

SpecBatch == InitBatch /\ [][NextProcessor]_vars

\* LiveConsumer.processLiveMessages hands one XREADGROUP reply of up to MaxLive
\* records, in the order of their ids, to Processor.process.
InitLiveBatch ==
    /\ retries \in 1..MaxRetries
    /\ processConcurrency \in 1..MaxConcurrency
    /\ \E n \in 1..MaxLive :
          /\ stream \in [1..n -> Kinds]
          /\ lastId = n
          /\ pel = [i \in 1..n |-> [count |-> 1, idle |-> FALSE]]
          /\ units = BatchUnits(Solo, "live", 1..n, [i \in 1..n |-> 0])
    /\ deadLetter = <<>>
    /\ pcFailed = [s \in Subs |-> "scan"]
    /\ scanned = [s \in Subs |-> {}]
    /\ hooks = {}
    /\ closed = {}
    /\ Idle

SpecLiveBatch == InitLiveBatch /\ [][NextProcessor]_vars

\* ----------------------------------- the processor with throwing listeners
\* An error thrown inside the pool's handleError callback stops the pool and
\* rejects the promise Processor.process awaits: the tasks of the batch not
\* yet started are dropped, and a pending loop awaiting the call ends.
ProcessRejects(u, phase, threw) ==
    /\ units' = [v \in UnitIds |->
          IF v = u
          THEN [units[u] EXCEPT !.phase = phase, !.settled = TRUE, !.threw = threw,
                                !.late = (units[u].phase = "running" /\ phase = "running"),
                                !.escaped = TRUE]
          ELSE IF /\ units[v].sub = units[u].sub /\ units[v].loop = units[u].loop
                  /\ units[v].phase = "queued"
               THEN [units[v] EXCEPT !.phase = "dropped", !.settled = TRUE]
               ELSE units[v]]
    /\ pcFailed' = IF units[u].loop = "failed"
                   THEN [pcFailed EXCEPT ![units[u].sub] = "ended"]
                   ELSE pcFailed

\* The task's timer wins the race and the listener of the TIMEOUT hook (or
\* the logger) throws inside onEventTimeout, called from handleError.
TimeoutListenerThrows(u) ==
    /\ units[u].phase \in {"skipping", "rejecting", "running"}
    /\ ~units[u].settled
    /\ ProcessRejects(u, units[u].phase, FALSE)
    /\ Emit("timeout", u)
    /\ UNCHANGED <<ext, closed, retries, processConcurrency, stream, lastId, pel, deadLetter,
                   scanned>>

\* The handler throws and the listener of the FAILED hook throws inside
\* onEventFailed: the error leaves processUnit's catch block before
\* rejectEvent, reaches handleError, which calls onEventFailed again.
FailedListenerThrows(u) ==
    /\ units[u].phase = "running"
    /\ ~units[u].settled
    /\ ProcessRejects(u, "done", TRUE)
    /\ Emit("failed", u)
    /\ UNCHANGED <<ext, closed, retries, processConcurrency, stream, lastId, pel, deadLetter,
                   scanned>>

\* The same after the task has timed out: the pool has settled the task, the
\* rejection of processUnit is dropped.
FailedListenerThrowsLate(u) ==
    /\ units[u].phase = "running"
    /\ units[u].settled
    /\ units' = [units EXCEPT ![u].phase = "done", ![u].threw = TRUE]
    /\ Emit("failed", u)
    /\ UNCHANGED <<ext, closed, retries, processConcurrency, stream, lastId, pel, deadLetter,
                   pcFailed, scanned>>

NextListeners ==
    \/ NextProcessor
    \/ \E u \in UnitIds : TimeoutListenerThrows(u)
    \/ \E u \in UnitIds : FailedListenerThrows(u)
    \/ \E u \in UnitIds : FailedListenerThrowsLate(u)

SpecListeners == InitBatch /\ [][NextListeners]_vars

\* ------------------------------------- the processor over a failing Redis
\* rejectEvent sends XADD and XACK through redis.pipeline(), which is no
\* transaction: exec() resolves with one [error, reply] pair per command and
\* rejectEvent never looks at the pairs.  The XADD is refused (the XACK is
\* applied): exec() resolves, REJECTED is emitted.
RejectEventAckOnly(u) ==
    /\ units[u].sub \notin closed
    /\ units[u].phase = "rejecting"
    /\ pel' = XAck(pel, units[u].id)
    /\ units' = [units EXCEPT ![u].phase = "done", ![u].settled = TRUE]
    /\ Emit("rejected", u)
    /\ UNCHANGED <<ext, closed, retries, processConcurrency, stream, lastId, deadLetter,
                   pcFailed, scanned>>

\* The XACK is refused (the XADD is applied): exec() resolves, REJECTED is
\* emitted.
RejectEventAppendOnly(u) ==
    /\ units[u].sub \notin closed
    /\ units[u].phase = "rejecting"
    /\ deadLetter' = Append(deadLetter,
           [src |-> units[u].id, action |-> stream[units[u].id].action,
            rejectedGroup |-> Group])
    /\ units' = [units EXCEPT ![u].phase = "done", ![u].settled = TRUE]
    /\ Emit("rejected", u)
    /\ UNCHANGED <<ext, closed, retries, processConcurrency, stream, lastId, pel, pcFailed, scanned>>

\* exec() rejects on every try of the retrier: rejectEvent's catch logs and
\* gives up, nothing was written.
RejectEventAbandoned(u) ==
    /\ units[u].phase = "rejecting"
    /\ units' = [units EXCEPT ![u].phase = "done", ![u].settled = TRUE]
    /\ UNCHANGED <<ext, closed, retries, processConcurrency, stream, lastId, pel, deadLetter,
                   pcFailed, scanned, hooks>>

NextFaulty ==
    \/ NextProcessor
    \/ \E u \in UnitIds : RejectEventAckOnly(u)
    \/ \E u \in UnitIds : RejectEventAppendOnly(u)
    \/ \E u \in UnitIds : RejectEventAbandoned(u)

SpecFaulty == InitProcessor /\ [][NextFaulty]_vars

\* ------------------------------------------- one subscriber that keeps running

\* XPENDING, XCLAIM or the decoding of a claimed record throws inside
\* FailedConsumer.consume: its loop has no catch, so the loop ends there.
FetchFails(s) ==
    /\ pcFailed[s] \in {"scan", "claim"}
    /\ Unsettled(s, "failed") = {}
    /\ pcFailed' = [pcFailed EXCEPT ![s] = "ended"]
    /\ scanned' = [scanned EXCEPT ![s] = {}]
    /\ UNCHANGED <<ext, closed, retries, processConcurrency, stream, lastId, pel, deadLetter,
                   units, hooks>>

NextLive ==
    \/ \E k \in Kinds : Publish(k)
    \/ Elapse
    \/ ReadLive(Solo)
    \/ Scan(Solo)
    \/ Claim(Solo)
    \/ FetchFails(Solo)
    \/ \E u \in UnitIds : StartUnit(u)
    \/ \E u \in UnitIds : SkipEvent(u)
    \/ \E u \in UnitIds : RejectEvent(u)
    \/ \E u \in UnitIds : HandlerAck(u)
    \/ \E u \in UnitIds : HandlerReturn(u)
    \/ \E u \in UnitIds : HandlerThrow(u)
    \/ \E u \in UnitIds : Timeout(u)

\* Time passes, the loops of the running subscriber iterate, the pool runs
\* its tasks and fires its timers, Redis answers.  A handler may never finish.
FairLive ==
    /\ WF_vars(Elapse)
    /\ WF_vars(ReadLive(Solo))
    /\ WF_vars(Scan(Solo))
    /\ WF_vars(Claim(Solo))
    /\ WF_vars(\E u \in UnitIds : StartUnit(u))
    /\ WF_vars(\E u \in UnitIds : SkipEvent(u))
    /\ WF_vars(\E u \in UnitIds : RejectEvent(u))
    /\ WF_vars(\E u \in UnitIds : Timeout(u))

SpecLive == Init /\ [][NextLive]_vars /\ FairLive

\* The same subscriber over a Redis that never fails a pending scan or claim.
NextSteady ==
    \/ \E k \in Kinds : Publish(k)
    \/ Elapse
    \/ ReadLive(Solo)
    \/ Scan(Solo)
    \/ Claim(Solo)
    \/ \E u \in UnitIds : StartUnit(u)
    \/ \E u \in UnitIds : SkipEvent(u)
    \/ \E u \in UnitIds : RejectEvent(u)
    \/ \E u \in UnitIds : HandlerAck(u)
    \/ \E u \in UnitIds : HandlerReturn(u)
    \/ \E u \in UnitIds : HandlerThrow(u)
    \/ \E u \in UnitIds : Timeout(u)

SpecSteady == Init /\ [][NextSteady]_vars /\ FairLive

\* Subscriber.stop: both consumers are told to stop (their stop() only clears
\* the loop flag and resolves at once), then redis.quit() closes the
\* connection.  Tasks and handlers in flight are not awaited.
Stop(s) ==
    /\ s \notin closed
    /\ closed' = closed \cup {s}
    /\ pcFailed' = [pcFailed EXCEPT ![s] = "stopped"]
    /\ scanned' = [scanned EXCEPT ![s] = {}]
    /\ UNCHANGED <<ext, retries, processConcurrency, stream, lastId, pel, deadLetter,
                   units, hooks>>

\* event.ack() while Redis cannot be reached (after quit, for one): the XACK
\* rejects on every try of the retrier, ackEvent's catch logs, no CONFIRMED.
HandlerAckAbandoned(u) ==
    /\ units[u].phase = "running"
    /\ units[u].acks < MaxAcks
    /\ units' = [units EXCEPT ![u].acks = @ + 1]
    /\ UNCHANGED <<ext, retries, processConcurrency, stream, lastId, pel, deadLetter,
                   pcFailed, scanned, hooks, closed>>

\* skipEvent while Redis cannot be reached: logged, nothing acknowledged.
SkipEventAbandoned(u) ==
    /\ units[u].phase = "skipping"
    /\ units' = [units EXCEPT ![u].phase = "done", ![u].settled = TRUE]
    /\ UNCHANGED <<ext, retries, processConcurrency, stream, lastId, pel, deadLetter,
                   pcFailed, scanned, hooks, closed>>

NextStop ==
    \/ NextSteady
    \/ Stop(Solo)
    \/ \E u \in UnitIds : HandlerAckAbandoned(u)
    \/ \E u \in UnitIds : SkipEventAbandoned(u)
    \/ \E u \in UnitIds : RejectEventAbandoned(u)

SpecStop == Init /\ [][NextStop]_vars

\* The same runs without any assumption on progress.
SpecSolo == Init /\ [][NextSteady]_vars

\* ------------------------------------------------ properties of the model
\* The event may reach a handler of this group: its action is registered and
\* it is not another group's rejected record.
Handled(id) == hasHandler(stream[id]) /\ ~isForAnotherGroup(stream[id])
Delivered(id) == id <= lastId
Acked(id) == Delivered(id) /\ id \notin DOMAIN pel
Copies(id) == { i \in DOMAIN deadLetter : deadLetter[i].src = id }
DeadLettered(id) == Copies(id) # {}
Invocations(id) == { u \in UnitIds : units[u].id = id /\ units[u].invoked }
Emitted(name, u) == <<name, u>> \in hooks
\* The delivery of the same event that precedes unit u.
Previous(u) == { v \in UnitIds : /\ v < u /\ units[v].id = units[u].id
                                 /\ \A w \in UnitIds :
                                      (w < u /\ units[w].id = units[u].id) => w <= v }

\* C1: every event appended to the stream eventually leaves the group's
\* pending list for good while a subscriber of the group keeps running: no
\* event stays pending forever.
C1_NoEventPendingForever ==
    \A id \in Ids : (id <= Len(stream)) ~> [](Acked(id))

\* C2: at-least-once delivery: an event that may reach a handler is never
\* acknowledged or dead-lettered before its handler was invoked at least once.
C2_AtLeastOnce ==
    \A id \in DOMAIN stream :
        (Handled(id) /\ (Acked(id) \/ DeadLettered(id))) => Invocations(id) # {}

\* C3: at most one terminal outcome: no event is both confirmed through a
\* handler's ack and appended to dead_letter by the group.
C3_OneTerminalOutcome ==
    \A u \in UnitIds : ~(Emitted("confirmed", u) /\ DeadLettered(units[u].id))

\* C4: the handler of an event is invoked at most `retries` times in total.
C4_AtMostRetriesInvocations ==
    \A id \in DOMAIN stream : Cardinality(Invocations(id)) <= retries

\* C5: at most one copy of an event is ever appended to dead_letter.
C5_AtMostOneDeadLetterCopy ==
    \A id \in DOMAIN stream : Cardinality(Copies(id)) <= 1

\* C6: rejection is all-or-nothing: a reject attempt ends either with the
\* dead_letter append and the source acknowledgement both done, or with
\* neither; never with only the append or only the acknowledgement.
C6_RejectAllOrNothing ==
    [][\A u \in UnitIds :
          (units[u].phase = "rejecting" /\ units'[u].phase = "done")
          => \/ /\ Len(deadLetter') = Len(deadLetter) + 1
                /\ units[u].id \notin DOMAIN pel'
             \/ /\ deadLetter' = deadLetter
                /\ pel' = pel]_vars

\* The processor is through with unit u.
Finished(u) == units[u].phase = "done"
RejectedBy(u) ==
    /\ Emitted("rejected", u)
    /\ DeadLettered(units[u].id)
    /\ units[u].id \notin DOMAIN pel

C9_ReclaimedWithNextAttempt ==
    [][\A u \in DOMAIN units' \ DOMAIN units : \A v \in Previous(u)' :
          (units[v].phase = "done" /\ units[v].invoked /\ ~units[v].threw
              /\ units[v].acks = 0)
          => /\ units'[u].loop = "failed"
             /\ units'[u].attempt = units[v].attempt + 1]_vars

\* C10: a handler that outlives processTimeout but acks before ackTimeout has
\* elapsed gets TIMEOUT emitted, is left running, its ack acknowledges the
\* event, and the event is never redelivered nor appended to dead_letter.
C10_LateAckStillCounts ==
    \A u \in UnitIds :
        (units[u].late /\ units[u].inTime /\ units[u].phase = "done")
        => /\ Emitted("timeout", u)
           /\ Emitted("confirmed", u)
           /\ Acked(units[u].id)
           /\ \A v \in UnitIds : v > u => units[v].id # units[u].id
           /\ ~DeadLettered(units[u].id)

\* C11: the pending consumer never claims or dispatches an event while a
\* handler invocation for that event is still executing in the group.
C11_NoReclaimOfInFlightHandler ==
    [][\A u \in DOMAIN units' \ DOMAIN units :
          units'[u].loop = "failed"
          => \A v \in DOMAIN units :
                units[v].id = units'[u].id => units[v].phase # "running"]_vars

\* The handler invocations of subscriber s that have not finished yet.
Executing(s) == { u \in UnitIds : units[u].sub = s /\ units[u].phase = "running" }
ExecutingOf(s, loop) == { u \in Executing(s) : units[u].loop = loop }

\* C12: at any time at most 2 x processConcurrency handlers are executing
\* within one subscriber.
C12_AtMostTwiceConcurrency ==
    \A s \in Subs : Cardinality(Executing(s)) <= 2 * processConcurrency

\* C13: within one process call at most processConcurrency handlers of the
\* batch are executing at any time, timed-out handlers included.
C13_AtMostConcurrencyPerBatch ==
    \A s \in Subs : \A loop \in {"live", "failed"} :
        Cardinality(ExecutingOf(s, loop)) <= processConcurrency

\* C14: Processor.process never throws or rejects to its caller, whatever
\* the handlers, the hook listeners and the log operations do.
C14_ProcessNeverRejects ==
    \A u \in UnitIds : ~units[u].escaped

\* C15: no error of a read, scan, claim, decode or dispatch terminates a
\* consumer loop: the pending loop of every subscriber keeps iterating (the
\* live loop has no terminated position: its errors are caught and logged).
C15_LoopsSurviveErrors ==
    \A s \in Subs : pcFailed[s] # "ended"

Foreign(id) == stream[id].rejectedGroup \notin {"none", Group}
\* No handler is registered for the record's action.
Unhandled(id) == stream[id].action \notin Handlers

InFlight(s) ==
    { u \in UnitIds : units[u].sub = s
                       /\ units[u].phase \in {"queued", "skipping", "rejecting", "running"} }

\* C20: when Subscriber.stop has completed, every batch in flight has
\* finished: no handler is started or still running and no acknowledgement
\* or dead-letter write is still to come once the connection is closed.
C20_StopAwaitsInFlight ==
    \A s \in closed : InFlight(s) = {}

\* ------------------------------------------- Subscriber.listen and stop
MaxStops == 2           \* stop() calls made on the subscriber

\* the processor, the loops and the log, which the steps below leave alone
core == <<retries, processConcurrency, stream, lastId, pel, deadLetter,
          units, pcFailed, scanned, hooks, closed>>

\* the processor and the log at rest
Rest ==
    /\ retries = MaxRetries
    /\ processConcurrency = MaxConcurrency
    /\ stream = <<>>
    /\ lastId = 0
    /\ pel = <<>>
    /\ deadLetter = <<>>
    /\ units = <<>>
    /\ pcFailed = [s \in Subs |-> "scan"]
    /\ scanned = [s \in Subs |-> {}]
    /\ hooks = {}
    /\ closed = {}

Command(op, ch, n) == [op |-> op, ch |-> ch, stop |-> n]

\* Subscriber.createGroup: one XGROUP CREATE <channel> <group> 0 MKSTREAM per
\* channel, each with a callback; no reply is awaited.
createGroup(conn) ==
    conn \o [i \in DOMAIN Channels |-> Command("xgroup", Channels[i], 0)]

\* LiveConsumer.consume up to its first await: one XREADGROUP over all streams.
consumeLive(conn) == Append(conn, Command("xreadgroup", "all", 0))

\* FailedConsumer.consume up to its first await: one XPENDING per stream.
consumeFailed(conn) ==
    conn \o [i \in DOMAIN Channels |-> Command("xpending", Channels[i], 0)]

\* Subscriber.listen: builds the consumers, awaits createGroup() (which has
\* only queued its commands), starts both loops, sets enabled and resolves.
listen ==
    /\ ~subscriber.enabled
    /\ subscriber.listened = "none"
    /\ subscriber' = [subscriber EXCEPT
                        !.conn = consumeFailed(consumeLive(createGroup(@))),
                        !.enabled = TRUE,
                        !.listened = "resolved"]
    /\ UNCHANGED <<core, tools, publisher, trimmer, config>>

\* Subscriber.stop: when enabled, both consumers are told to stop, the
\* trimmer is stopped, redis.quit(resolve) is sent and enabled is cleared;
\* when not enabled the executor does nothing and the promise has no resolver.
stop ==
    /\ Len(subscriber.stops) < MaxStops
    /\ subscriber' =
         IF subscriber.enabled
         THEN [subscriber EXCEPT
                 !.stops = Append(@, [settled |-> FALSE, resolver |-> "quit"]),
                 !.conn = Append(@, Command("quit", "all", Len(subscriber.stops) + 1)),
                 !.enabled = FALSE]
         ELSE [subscriber EXCEPT
                 !.stops = Append(@, [settled |-> FALSE, resolver |-> "none"])]
    /\ UNCHANGED <<core, tools, publisher, trimmer, config>>

\* The server executes the commands of the one connection in the order sent.
Serving(op) ==
    /\ subscriber.conn # <<>>
    /\ ~subscriber.quit
    /\ Head(subscriber.conn).op = op

\* XGROUP CREATE succeeds: callback without error, debug log.
XGroupCreated ==
    /\ Serving("xgroup")
    /\ Head(subscriber.conn).ch \notin subscriber.groups
    /\ subscriber' = [subscriber EXCEPT !.conn = Tail(@),
                        !.groups = @ \cup {Head(subscriber.conn).ch}]
    /\ UNCHANGED <<core, tools, publisher, trimmer, config>>

\* XGROUP CREATE answers BUSYGROUP: the callback logs and ignores it.
XGroupBusy ==
    /\ Serving("xgroup")
    /\ Head(subscriber.conn).ch \in subscriber.groups
    /\ subscriber' = [subscriber EXCEPT !.conn = Tail(@)]
    /\ UNCHANGED <<core, tools, publisher, trimmer, config>>

\* XGROUP CREATE fails otherwise (WRONGTYPE, NOPERM, READONLY...): the
\* callback throws, inside the client's reply handling and not inside listen.
XGroupError ==
    /\ Serving("xgroup")
    /\ subscriber' = [subscriber EXCEPT !.conn = Tail(@),
                        !.thrown = @ \cup {Head(subscriber.conn).ch}]
    /\ UNCHANGED <<core, tools, publisher, trimmer, config>>

\* the live loop's first XREADGROUP GROUP ... STREAMS <all> > is executed
FirstGroupRead ==
    /\ Serving("xreadgroup")
    /\ subscriber' = [subscriber EXCEPT !.conn = Tail(@),
                        !.reads = @ \cup { <<"live", ch>> : ch \in ChannelSet }]
    /\ UNCHANGED <<core, tools, publisher, trimmer, config>>

\* the pending loop's first XPENDING on one stream is executed
FirstPendingScan ==
    /\ Serving("xpending")
    /\ subscriber' = [subscriber EXCEPT !.conn = Tail(@),
                        !.reads = @ \cup { <<"pending", Head(subscriber.conn).ch>> }]
    /\ UNCHANGED <<core, tools, publisher, trimmer, config>>

\* QUIT is answered: the connection closes and the callback given to
\* redis.quit, the stop promise's resolve, is called.
QuitReply ==
    /\ Serving("quit")
    /\ subscriber' = [subscriber EXCEPT !.conn = <<>>, !.quit = TRUE,
                        !.stops[Head(subscriber.conn).stop].settled = TRUE]
    /\ UNCHANGED <<core, tools, publisher, trimmer, config>>

Serve ==
    \/ XGroupCreated
    \/ XGroupBusy
    \/ XGroupError
    \/ FirstGroupRead
    \/ FirstPendingScan
    \/ QuitReply

\* The group may already exist on any of the streams when listen is called.
InitLifecycle ==
    /\ Rest
    /\ NoTools
    /\ \E G \in SUBSET ChannelSet : subscriber = [NoSubscriber EXCEPT !.groups = G]
    /\ publisher = NoPublisher
    /\ trimmer = NoTrimmer
    /\ config = NoConfig

NextLifecycle ==
    \/ listen
    \/ stop
    \/ Serve

\* the server answers every command it has received
SpecLifecycle == InitLifecycle /\ [][NextLifecycle]_vars /\ WF_vars(Serve)

\* C21: every call of Subscriber.stop completes: its promise settles, also
\* for a second call and for a call on a subscriber that is not listening.
C21_StopSettles ==
    \A n \in 1..MaxStops :
        (Len(subscriber.stops) >= n)
            ~> (Len(subscriber.stops) >= n /\ subscriber.stops[n].settled)

\* C22: the group exists on a stream when the live loop's first group read
\* and the pending loop's first pending scan of that stream are executed.
C22_GroupBeforeFirstRead ==
    \A r \in subscriber.reads :
        r[2] \in subscriber.groups

\* C23: when the creation of the group on a stream has failed with an error
\* other than BUSYGROUP, listen has rejected.
C23_ListenRejectsOnCreateFailure ==
    subscriber.thrown # {} => subscriber.listened = "rejected"

\* ------------------------------------------------------------- Publisher
PublisherHooks == {"published", "failed"}

\* Publisher.on with a listener that throws: EventEmitter.emit calls the
\* listeners synchronously and lets their exception reach the emitter's caller.
on(h) ==
    /\ h \notin publisher.listeners
    /\ publisher' = [publisher EXCEPT !.listeners = @ \cup {h}]
    /\ UNCHANGED <<core, tools, subscriber, trimmer, config>>

\* replies[i] of a pipeline: "ok" (an id) or "err"
Replies(n) == [1..n -> {"ok", "err"}]

\* onEventPublishSucceeded / onEventPublishFailed throw when a throwing
\* listener is registered for the hook they emit.
HookThrows(reply, L) ==
    \/ reply = "ok" /\ "published" \in L
    \/ reply = "err" /\ "failed" \in L

\* results.forEach stops at the first entry whose hook throws (0: none does)
FirstThrow(R, L) ==
    IF \E i \in DOMAIN R : HookThrows(R[i], L)
    THEN CHOOSE i \in DOMAIN R :
            /\ HookThrows(R[i], L)
            /\ \A j \in DOMAIN R : HookThrows(R[j], L) => i <= j
    ELSE 0

\* entries whose hook was emitted by results.forEach
Reached(R, L) ==
    IF FirstThrow(R, L) = 0 THEN DOMAIN R ELSE 1..FirstThrow(R, L)

\* onEventPublishSucceeded for the entries of the loop answered "ok"
onEventPublishSucceeded(count, R, L) ==
    [i \in Entries |->
        count[i] + (IF i \in Reached(R, L) /\ R[i] = "ok" THEN 1 ELSE 0)]

\* onEventPublishFailed for the entries of the loop answered with an error
onEventPublishFailed(count, R, L) ==
    [i \in Entries |->
        count[i] + (IF i \in Reached(R, L) /\ R[i] = "err" THEN 1 ELSE 0)]

\* the catch block: newEvents.forEach(onEventPublishFailed), which a throwing
\* FAILED listener leaves at the first entry
onEventPublishFailedAll(count, n, L) ==
    [i \in Entries |->
        count[i] + (IF i <= n /\ ("failed" \notin L \/ i = 1) THEN 1 ELSE 0)]

\* what the try block of publish / publishBatch does with the replies R
Replied(R) ==
    LET L == publisher.listeners
        pub == onEventPublishSucceeded(publisher.published, R, L)
        fai == onEventPublishFailed(publisher.failed, R, L)
    IN  publisher' = [publisher EXCEPT
            !.pc = "done",
            !.exec = "replied",
            !.appended = { i \in DOMAIN R : R[i] = "ok" },
            !.published = pub,
            !.failed = IF FirstThrow(R, L) = 0 THEN fai
                       ELSE onEventPublishFailedAll(fai, publisher.n, L),
            !.outcome = IF FirstThrow(R, L) # 0 THEN "raised"
                        ELSE IF publisher.call = "publish" THEN "id"
                        ELSE "results",
            !.results = IF FirstThrow(R, L) # 0 \/ publisher.call = "publish"
                        THEN <<>>
                        ELSE [i \in DOMAIN R |-> [ok |-> R[i] = "ok", id |-> R[i] = "ok"]]]

\* Publisher.publish up to the await of XADD.  getSentEvent serialises the
\* payload with JSON.stringify before the try block: a payload that cannot be
\* serialised (a cycle, a BigInt) makes the call reject there.
publish(encodable) ==
    /\ publisher.call = "none"
    /\ publisher' = IF encodable
                    THEN [publisher EXCEPT !.call = "publish", !.n = 1, !.pc = "sent"]
                    ELSE [publisher EXCEPT !.call = "publish", !.n = 1, !.pc = "done",
                                           !.outcome = "raised"]
    /\ UNCHANGED <<core, tools, subscriber, trimmer, config>>

\* XADD answers an id: onEventPublishSucceeded inside the try, return id;
\* an exception of the PUBLISHED listener lands in the catch block.
XAddOk ==
    /\ publisher.call = "publish"
    /\ publisher.pc = "sent"
    /\ Replied(<<"ok">>)
    /\ UNCHANGED <<core, tools, subscriber, trimmer, config>>

\* XADD rejects: catch block, onEventPublishFailed, throw error
XAddFails ==
    /\ publisher.call = "publish"
    /\ publisher.pc = "sent"
    /\ publisher' = [publisher EXCEPT
            !.pc = "done", !.exec = "failed",
            !.failed = onEventPublishFailedAll(@, 1, publisher.listeners),
            !.outcome = "raised"]
    /\ UNCHANGED <<core, tools, subscriber, trimmer, config>>

\* Publisher.publishBatch up to the await of pipeline.exec(); the entries
\* are serialised before the try block, as in publish.
publishBatch(n, encodable) ==
    /\ publisher.call = "none"
    /\ publisher' = IF encodable
                    THEN [publisher EXCEPT !.call = "publishBatch", !.n = n, !.pc = "sent"]
                    ELSE [publisher EXCEPT !.call = "publishBatch", !.n = n, !.pc = "done",
                                           !.outcome = "raised"]
    /\ UNCHANGED <<core, tools, subscriber, trimmer, config>>

\* pipeline.exec() resolves with one [error, id] pair per entry
ExecReplies(R) ==
    /\ publisher.call = "publishBatch"
    /\ publisher.pc = "sent"
    /\ Len(R) = publisher.n
    /\ Replied(R)
    /\ UNCHANGED <<core, tools, subscriber, trimmer, config>>

\* pipeline.exec() rejects: catch block, FAILED for every entry, throw error
ExecFails ==
    /\ publisher.call = "publishBatch"
    /\ publisher.pc = "sent"
    /\ publisher' = [publisher EXCEPT
            !.pc = "done", !.exec = "failed",
            !.failed = onEventPublishFailedAll(@, publisher.n, publisher.listeners),
            !.outcome = "raised"]
    /\ UNCHANGED <<core, tools, subscriber, trimmer, config>>

InitPublisher ==
    /\ Rest
    /\ NoTools
    /\ subscriber = NoSubscriber
    /\ publisher = NoPublisher
    /\ trimmer = NoTrimmer
    /\ config = NoConfig

NextPublisher ==
    \/ \E h \in PublisherHooks : on(h)
    \/ \E e \in BOOLEAN : publish(e)
    \/ XAddOk
    \/ XAddFails
    \/ \E n \in Entries, e \in BOOLEAN : publishBatch(n, e)
    \/ \E n \in Entries : \E R \in Replies(n) : ExecReplies(R)
    \/ ExecFails

SpecPublisher == InitPublisher /\ [][NextPublisher]_vars

\* the call of the behaviour has completed
Completed(call) == publisher.call = call /\ publisher.pc = "done"

\* C24: an exception of a hook listener does not turn a publish whose append
\* succeeded into a reported failure: the call returns the id.
C24_ListenerErrorContained ==
    Completed("publish") /\ 1 \in publisher.appended
        => publisher.outcome = "id"

\* C25: a completed publish call has emitted exactly one hook: PUBLISHED iff
\* the append succeeded and the id was returned, FAILED iff the append failed
\* and the error was raised.
C25_ExactlyOneHook ==
    Completed("publish") =>
        /\ publisher.published[1] + publisher.failed[1] = 1
        /\ publisher.published[1] = 1
             <=> (1 \in publisher.appended /\ publisher.outcome = "id")
        /\ publisher.failed[1] = 1
             <=> (publisher.exec = "failed" /\ publisher.outcome = "raised")

\* C26: a completed publishBatch of N entries has returned N results in order
\* with ok and an id exactly for the appended entries and one hook per entry
\* (PUBLISHED if appended, FAILED if not), or the pipeline failed as a whole,
\* FAILED was emitted for all N entries and the error was raised.
C26_BatchResultsAndHooks ==
    Completed("publishBatch") =>
        \/ /\ publisher.outcome = "results"
           /\ Len(publisher.results) = publisher.n
           /\ \A i \in 1..publisher.n :
                /\ publisher.results[i].ok <=> i \in publisher.appended
                /\ publisher.results[i].id <=> i \in publisher.appended
                /\ publisher.published[i] + publisher.failed[i] = 1
                /\ publisher.published[i] = 1 <=> i \in publisher.appended
        \/ /\ publisher.exec = "failed"
           /\ publisher.outcome = "raised"
           /\ \A i \in 1..publisher.n :
                publisher.failed[i] = 1 /\ publisher.published[i] = 0

\* --------------------------------------------------- configuration values
\* values a caller may put in a config object (ms or counts)
Supplied == {0, 1, 5, 500, 10000, 30000, 1000000, 1000001, 7200000, 172800000}
Inputs == {NotGiven} \cup { Given(v) : v \in Supplied }

InitConfig ==
    /\ Rest
    /\ NoTools
    /\ subscriber = NoSubscriber
    /\ publisher = NoPublisher
    /\ trimmer = NoTrimmer
    /\ \E p \in ParameterNames, value \in Inputs :
          config = [NoConfig EXCEPT !.param = p, !.value = value]

\* Subscriber.constructor / Trimmer.constructor: this.<p> = setDefaultMinMax(<p>, def, min)
construct ==
    /\ ~config.built
    /\ config' = [config EXCEPT !.built = TRUE,
                                !.field = Field(config.param, config.value)]
    /\ UNCHANGED <<core, tools, subscriber, publisher, trimmer>>

SpecConfig == InitConfig /\ [][construct]_vars

\* C30: a parameter takes its default when not supplied, its minimum when
\* supplied below it, and the supplied value otherwise, with no upper bound.
C30_DefaultMinUnbounded ==
    config.built =>
        config.field =
            IF ~config.value.supplied THEN Parameters[config.param].def
            ELSE IF config.value.v < Parameters[config.param].min
                 THEN Parameters[config.param].min
                 ELSE config.value.v

\* ---------------------------------------------------------------- Trimmer
MaxTicks == 2           \* advances of the clock
MaxStored == 2          \* entries ever appended to the trimmed stream
MaxTrims == 2           \* XTRIM commands executed

\* advances of the clock in ms: 10 s and 1 h
Steps == {10000, 3600000}

\* the value the documentation gives a parameter: the supplied one, or the default
Documented(p, value) == IF value.supplied THEN value.v ELSE Parameters[p].def
Permitted(p, value) == ~value.supplied \/ value.v >= Parameters[p].min

\* GET rivulex:trimmer:<stream> finds the key: it was set and has not expired
KeyExists == trimmer.key.set /\ trimmer.now < trimmer.key.expires

\* time passes
Advance(d) ==
    /\ trimmer.ticks < MaxTicks
    /\ trimmer' = [trimmer EXCEPT !.now = @ + d, !.ticks = @ + 1]
    /\ UNCHANGED <<core, tools, subscriber, publisher, config>>

\* an entry is appended to the stream; its id is the current time
XAddEntry ==
    /\ Cardinality(trimmer.entries) + Cardinality(trimmer.deleted) < MaxStored
    /\ trimmer.now \notin trimmer.entries
    /\ trimmer' = [trimmer EXCEPT !.entries = @ \cup {trimmer.now}]
    /\ UNCHANGED <<core, tools, subscriber, publisher, config>>

\* Trimmer.trim on a timer tick, up to the reply of shouldTrim's GET: the
\* key is found and the stream skipped, or trimStream is entered.
shouldTrim(t) ==
    /\ trimmer.inst[t].pc = "idle"
    /\ trimmer' = IF KeyExists
                  THEN [trimmer EXCEPT !.inst[t].last = "skipped"]
                  ELSE [trimmer EXCEPT !.inst[t].pc = "trim"]
    /\ UNCHANGED <<core, tools, subscriber, publisher, config>>

\* Trimmer.getMinIdForRetentionPeriod: the timestamp of `${now - retentionPeriod}-0`
getMinIdForRetentionPeriod == trimmer.now - trimmer.retentionPeriod

\* Trimmer.trimStream, first await: XTRIM <stream> MINID <minId> evicts the
\* entries whose id is lower than minId.
trimStream(t) ==
    /\ trimmer.inst[t].pc = "trim"
    /\ Len(trimmer.xtrims) < MaxTrims
    /\ LET minId == getMinIdForRetentionPeriod
           old == { ts \in trimmer.entries : ts < minId }
       IN  trimmer' = [trimmer EXCEPT
               !.entries = @ \ old,
               !.deleted = @ \cup { [ts |-> ts, age |-> trimmer.now - ts] : ts \in old },
               !.xtrims = Append(@, [by |-> t, at |-> trimmer.now]),
               !.inst[t].pc = "store"]
    /\ UNCHANGED <<core, tools, subscriber, publisher, config>>

\* XTRIM rejects: trim's catch logs the error
XTrimFails(t) ==
    /\ trimmer.inst[t].pc = "trim"
    /\ trimmer' = [trimmer EXCEPT !.inst[t].pc = "idle", !.inst[t].last = "failed"]
    /\ UNCHANGED <<core, tools, subscriber, publisher, config>>

\* Trimmer.trimStream, second await: SET <key> <info> EX intervalTime / 1000.
\* The quotient is sent as it is; Redis rejects an expire time that is not an
\* integer, trim's catch logs the error and the key is not written.
storeTrimmingInfo(t) ==
    /\ trimmer.inst[t].pc = "store"
    /\ trimmer' =
         IF trimmer.intervalTime % 1000 = 0
         THEN [trimmer EXCEPT
                 !.key = [set |-> TRUE, expires |-> trimmer.now + trimmer.intervalTime],
                 !.inst[t] = [pc |-> "idle", last |-> "trimmed",
                              ttl |-> trimmer.intervalTime \div 1000]]
         ELSE [trimmer EXCEPT
                 !.inst[t] = [pc |-> "idle", last |-> "trimmed", ttl |-> 0]]
    /\ UNCHANGED <<core, tools, subscriber, publisher, config>>

\* Two trimmers of one group are built from the same permitted configuration.
InitTrimmer ==
    /\ Rest
    /\ NoTools
    /\ subscriber = NoSubscriber
    /\ publisher = NoPublisher
    /\ config = NoConfig
    /\ \E r \in {NotGiven, Given(10000), Given(7200000)},
          i \in {NotGiven, Given(10000), Given(10500)} :
          trimmer = NewTrimmer(r, i)

NextTrimmer ==
    \/ \E d \in Steps : Advance(d)
    \/ XAddEntry
    \/ \E t \in Trimmers : shouldTrim(t)
    \/ \E t \in Trimmers : trimStream(t)
    \/ \E t \in Trimmers : XTrimFails(t)
    \/ \E t \in Trimmers : storeTrimmingInfo(t)

SpecTrimmer == InitTrimmer /\ [][NextTrimmer]_vars

\* C27: two XTRIMs on the stream are never closer to each other than the
\* lifetime of the coordination key: one trim per interval window.
C27_OneTrimPerWindow ==
    \A i, j \in DOMAIN trimmer.xtrims :
        i < j => trimmer.xtrims[j].at - trimmer.xtrims[i].at >= trimmer.intervalTime

\* C28: for a permitted configuration, every entry the trimmer has deleted
\* was at least as old as the configured retentionPeriod (48 h when none is
\* configured).
C28_NoYoungEntryDeleted ==
    Permitted("retentionPeriod", trimmer.given.retentionPeriod) =>
        \A d \in trimmer.deleted :
            d.age >= Documented("retentionPeriod", trimmer.given.retentionPeriod)

\* C29: for a permitted intervalTime, once trimStream has run after a
\* successful XTRIM the key has been written with a positive TTL of
\* intervalTime / 1000 seconds.
C29_KeyWrittenWithTtl ==
    Permitted("intervalTime", trimmer.given.intervalTime) =>
        \A t \in Trimmers :
            trimmer.inst[t].last = "trimmed" =>
                /\ trimmer.inst[t].ttl > 0
                /\ trimmer.inst[t].ttl * 1000
                     = Documented("intervalTime", trimmer.given.intervalTime)

\* ---------------------------------------------------------------- Retrier
MaxRetrierRetries == 3  \* Retrier.retries ranges over 1..MaxRetrierRetries

\* retry's catch block: "if (attempt === this.retries) throw error"
lastAttemptEarly(attempt) == attempt + 1 >= retrier.retries
lastAttempt(attempt) == attempt = retrier.retries

\* Retrier.retry is called: the loop starts with attempt = 0 and invokes asyncFunc
retry ==
    /\ retrier.pc = "idle"
    /\ retrier' = [retrier EXCEPT !.pc = "calling"]
    /\ UNCHANGED <<core, subscriber, publisher, trimmer, config, backoff, decode, rejection, capability, listening, timers>>

\* asyncFunc resolves: "return await asyncFunc()"
OperationSucceeds ==
    /\ retrier.pc = "calling"
    /\ retrier' = [retrier EXCEPT !.pc = "done", !.log = Append(@, "ok"),
                                  !.outcome = "resolved"]
    /\ UNCHANGED <<core, subscriber, publisher, trimmer, config, backoff, decode, rejection, capability, listening, timers>>

\* asyncFunc rejects with e: the catch block throws it on the last attempt
\* and sleeps for the delay otherwise
OperationFails(e) ==
    /\ retrier.pc = "calling"
    /\ retrier' = IF lastAttempt(retrier.attempt)
                  THEN [retrier EXCEPT !.pc = "done", !.log = Append(@, e),
                                       !.outcome = "rejected", !.raised = e]
                  ELSE [retrier EXCEPT !.pc = "sleeping", !.log = Append(@, e)]
    /\ UNCHANGED <<core, subscriber, publisher, trimmer, config, backoff, decode, rejection, capability, listening, timers>>

\* the sleep is over: attempt++ and asyncFunc is invoked again
sleep ==
    /\ retrier.pc = "sleeping"
    /\ retrier' = [retrier EXCEPT !.pc = "calling", !.attempt = @ + 1]
    /\ UNCHANGED <<core, subscriber, publisher, trimmer, config, backoff, decode, rejection, capability, listening, timers>>

InitRetrier ==
    /\ Rest
    /\ NoComponents
    /\ capability = NoCapability
    /\ listening = NoListening
    /\ timers = NoTimers
    /\ backoff = NoBackoff
    /\ decode = NoDecode
    /\ rejection = NoRejection
    /\ \E n \in 1..MaxRetrierRetries : retrier = NewRetrier(n)

NextRetrier ==
    \/ retry
    \/ OperationSucceeds
    \/ \E e \in Errors : OperationFails(e)
    \/ sleep

SpecRetrier == InitRetrier /\ [][NextRetrier]_vars

\* invocations of asyncFunc so far: those answered and the one in flight
Invoked == Len(retrier.log) + (IF retrier.pc = "calling" THEN 1 ELSE 0)

\* C31 as stated: a Retrier configured with N invokes the operation at most N
\* times in total.
C31_AtMostNInvocations_Stated ==
    Invoked <= retrier.retries

\* C31: a Retrier configured with N invokes the operation at most N + 1 times;
\* it resolves with the first success, which was its last invocation, and it
\* rejects only after N + 1 failures, with the error of the last one.
C31_AtMostNPlusOneInvocations ==
    /\ Invoked <= retrier.retries + 1
    /\ retrier.outcome = "resolved" =>
          /\ retrier.log[Len(retrier.log)] = "ok"
          /\ \A i \in 1..(Len(retrier.log) - 1) : retrier.log[i] # "ok"
    /\ retrier.outcome = "rejected" =>
          /\ Len(retrier.log) = retrier.retries + 1
          /\ \A i \in DOMAIN retrier.log : retrier.log[i] # "ok"
          /\ retrier.raised = retrier.log[Len(retrier.log)]
    /\ retrier.pc = "done" => Invoked = Len(retrier.log)

\* the operation failed on every attempt, the last two with different errors
C31_Witness ==
    /\ retrier.outcome = "rejected"
    /\ Len(retrier.log) = retrier.retries + 1
    /\ retrier.log[Len(retrier.log)] # retrier.log[Len(retrier.log) - 1]

\* C32: the handler invocations for one event carry strictly increasing
\* attempt values, in the order of their deliveries.
C32_AttemptStrictlyIncreases ==
    \A u, v \in UnitIds :
        (u < v /\ units[u].id = units[v].id /\ units[u].invoked /\ units[v].invoked)
            => units[u].attempt < units[v].attempt

\* ----------------------------------------------- decoding a fetched batch
MaxRecords == 3         \* records of one XREADGROUP / XCLAIM reply

\* Formatter.parseRawEvents: rawEvents.map(parseRawEvent); JSON.parse throws on
\* the first malformed payload or headers and the map returns nothing.
\* a raw record: well formed, or with a payload or headers field that is not JSON
Records == {"ok", "badPayload", "badHeaders"}
Throws(batch) == \E i \in DOMAIN batch : batch[i] # "ok"
parseRawEvents(batch) == IF Throws(batch) THEN {} ELSE DOMAIN batch

\* LiveConsumer.processLiveMessages after the XREADGROUP reply: the batch is
\* parsed and handed to Processor.process; an exception of the parse is
\* caught and logged by consume's try/catch and the loop goes on.
processLiveMessages ==
    /\ decode.loop = "live"
    /\ decode.pc = "fetched"
    /\ decode' = [decode EXCEPT
                    !.dispatched = parseRawEvents(decode.batch),
                    !.pc = IF Throws(decode.batch) THEN "thrown" ELSE "processed"]
    /\ UNCHANGED <<core, subscriber, publisher, trimmer, config, retrier, backoff, rejection, capability, listening, timers>>

\* the records of a batch that was not processed stay in the pending list;
\* after ackTimeout the pending loop's XPENDING / XCLAIM returns them
reclaim ==
    /\ decode.loop = "live"
    /\ decode.pc = "thrown"
    /\ decode' = [decode EXCEPT !.loop = "failed", !.pc = "fetched",
                                !.reclaimed = TRUE]
    /\ UNCHANGED <<core, subscriber, publisher, trimmer, config, retrier, backoff, rejection, capability, listening, timers>>

\* FailedConsumer.fetchFailedEvents after the XCLAIM reply, and
\* processFailedEvents: the records are parsed one by one in a map and handed
\* to Processor.process; an exception of the parse rejects processFailedEvents
\* inside consume's loop, which has no try/catch, and the loop ends.
fetchFailedEvents ==
    /\ decode.loop = "failed"
    /\ decode.pc = "fetched"
    /\ decode' = [decode EXCEPT
                    !.dispatched = parseRawEvents(decode.batch),
                    !.pc = IF Throws(decode.batch) THEN "thrown" ELSE "processed",
                    !.running = ~Throws(decode.batch)]
    /\ UNCHANGED <<core, subscriber, publisher, trimmer, config, retrier, backoff, rejection, capability, listening, timers>>

Batches == UNION { [1..n -> Records] : n \in 1..MaxRecords }

\* a loop has received a batch of raw records, which are now pending
InitDecode ==
    /\ Rest
    /\ NoComponents
    /\ capability = NoCapability
    /\ listening = NoListening
    /\ timers = NoTimers
    /\ retrier = NoRetrier
    /\ backoff = NoBackoff
    /\ rejection = NoRejection
    /\ \E l \in {"live", "failed"}, b \in Batches :
          decode = [NoDecode EXCEPT !.loop = l, !.batch = b, !.pc = "fetched"]

NextDecode ==
    \/ processLiveMessages
    \/ reclaim
    \/ fetchFailedEvents

SpecDecode == InitDecode /\ [][NextDecode]_vars

\* C33: when a loop has gone through a fetched batch, every record that
\* decodes has been dispatched to the processor, whatever the other records of
\* the batch are; the records that do not decode were skipped.
C33_DecodeFailureIsolated ==
    decode.pc \in {"processed", "thrown"} =>
        decode.dispatched = { i \in DOMAIN decode.batch : decode.batch[i] = "ok" }

\* ---------------------------------------------------- the dead-letter copy
Times == {"t1", "t2", "t3"}          \* ISO timestamps (new Date().toISOString())
Groups == {Group, "billing"}         \* groups of publishers
Payloads == {"{\"n\":1}", "{ \"n\": 1.0 }", "{\"n\":2}"}   \* payload fields as stored

\* JSON.parse of a payload field: the value it denotes
JSONparse(text) == IF text = "{\"n\":2}" THEN "n2" ELSE "n1"
\* JSON.stringify of a value: its canonical text
JSONstringify(value) == IF value = "n2" THEN "{\"n\":2}" ELSE "{\"n\":1}"

\* { ...headers, key: value }
Spread(headers, key, value) ==
    [k \in DOMAIN headers \cup {key} |-> IF k = key THEN value ELSE headers[k]]

\* Formatter.getNewEvent: headers = { ...headers, timestamp: now, group: group }
getNewEvent(action, payload, headers, group, now) ==
    [action |-> action, payload |-> payload,
     headers |-> Spread(Spread(headers, "timestamp", now), "group", group)]

\* Formatter.getSentEvent: the payload is serialised with JSON.stringify
getSentEvent(newEvent) == [newEvent EXCEPT !.payload = JSONstringify(@)]

\* Formatter.parseRawEvent: the payload is decoded with JSON.parse
parseRawEvent(record) == [record EXCEPT !.payload = JSONparse(@)]

\* headers a publisher may pass in addition
UserHeaders == {NoHeaders} \cup { Spread(NoHeaders, "traceId", v) : v \in {"x", "y"} }

\* the record a publisher of group g appended at time t
Published(action, text, headers, g, t) ==
    [getNewEvent(action, "n1", headers, g, t) EXCEPT !.payload = text]

\* Processor.rejectEvent: rejectedHeaders = { ...baseEvent.headers, rejected,
\* rejectedGroup, rejectedTimestamp }, then getNewEvent and getSentEvent of
\* the parsed event, appended to dead_letter.
rejectEvent ==
    /\ ~rejection.done
    /\ LET baseEvent == parseRawEvent(rejection.event)
           rejectedHeaders ==
               Spread(Spread(Spread(baseEvent.headers, "rejected", "true"),
                             "rejectedGroup", Group),
                      "rejectedTimestamp", rejection.now)
           newEvent == getNewEvent(baseEvent.action, baseEvent.payload,
                                   rejectedHeaders, Group, rejection.now)
       IN  rejection' = [rejection EXCEPT !.done = TRUE,
                                          !.copy = getSentEvent(newEvent)]
    /\ UNCHANGED <<core, subscriber, publisher, trimmer, config, retrier, backoff, decode, capability, listening, timers>>

\* an event published by some group at some time is rejected at some time
InitRejection ==
    /\ Rest
    /\ NoComponents
    /\ capability = NoCapability
    /\ listening = NoListening
    /\ timers = NoTimers
    /\ retrier = NoRetrier
    /\ backoff = NoBackoff
    /\ decode = NoDecode
    /\ \E a \in {"a1", "a2"}, text \in Payloads, h \in UserHeaders,
          g \in Groups, t \in Times, now \in Times :
          rejection = [NoRejection EXCEPT
                          !.event = Published(a, text, h, g, t), !.now = now]

SpecRejection == InitRejection /\ [][rejectEvent]_vars

RejectionKeys == {"rejected", "rejectedGroup", "rejectedTimestamp"}

\* C34: the copy appended to dead_letter has the event's action and payload
\* and every original header with its original value, and differs by the three
\* added headers only.
C34_DeadLetterCopyKeepsHeaders ==
    rejection.done =>
        /\ rejection.copy.action = rejection.event.action
        /\ JSONparse(rejection.copy.payload) = JSONparse(rejection.event.payload)
        /\ DOMAIN rejection.copy.headers
              = DOMAIN rejection.event.headers \cup RejectionKeys
        /\ \A k \in DOMAIN rejection.event.headers :
              rejection.copy.headers[k] = rejection.event.headers[k]
        /\ rejection.copy.headers["rejected"] = "true"
        /\ rejection.copy.headers["rejectedGroup"] = Group
        /\ rejection.copy.headers["rejectedTimestamp"] = rejection.now

MaxQueue == 2           \* records waiting in the stream when the loops start
fetchBatchSize == 1     \* the smallest permitted fetchBatchSize

\* The first n ids of a set: what COUNT n returns of an ordered reply.
RECURSIVE Lowest(_, _)
Lowest(S, n) ==
    IF S = {} \/ n = 0 THEN {}
    ELSE LET i == CHOOSE x \in S : \A y \in S : x <= y
         IN {i} \cup Lowest(S \ {i}, n - 1)

\* LiveConsumer.processLiveMessages with COUNT fetchBatchSize: XREADGROUP
\* returns at most fetchBatchSize new entries.
XReadGroup(s) ==
    /\ s \notin closed
    /\ Unsettled(s, "live") = {}
    /\ lastId < Len(stream)
    /\ LET ids == Lowest((lastId + 1)..Len(stream), fetchBatchSize)
       IN /\ pel' = Deliver(pel, ids)
          /\ units' = units \o BatchUnits(s, "live", ids, [i \in ids |-> 0])
          /\ lastId' = lastId + Cardinality(ids)
    /\ UNCHANGED <<ext, closed, retries, processConcurrency, stream, deadLetter, pcFailed,
                   scanned, hooks>>

\* FailedConsumer.fetchFailedEvents, first await: XPENDING ... IDLE ackTimeout
\* - + fetchBatchSize returns the first fetchBatchSize idle entries.
XPendingCount(s) ==
    /\ s \notin closed
    /\ pcFailed[s] = "scan"
    /\ Unsettled(s, "failed") = {}
    /\ XPending(pel) # {}
    /\ LET ids == Lowest({ p[1] : p \in XPending(pel) }, fetchBatchSize)
       IN scanned' = [scanned EXCEPT ![s] = { p \in XPending(pel) : p[1] \in ids }]
    /\ pcFailed' = [pcFailed EXCEPT ![s] = "claim"]
    /\ UNCHANGED <<ext, closed, retries, processConcurrency, stream, lastId, pel, deadLetter,
                   units, hooks>>

\* The loops start on a stream that already holds MaxQueue records, none of
\* them a rejected copy.  A batch of one event never needs a second slot.
InitQueue ==
    /\ retries \in 1..MaxRetries
    /\ processConcurrency = 1
    /\ stream \in [1..MaxQueue -> {k \in Kinds : k.rejectedGroup = "none"}]
    /\ lastId = 0
    /\ pel = <<>>
    /\ deadLetter = <<>>
    /\ units = <<>>
    /\ pcFailed = [s \in Subs |-> "scan"]
    /\ scanned = [s \in Subs |-> {}]
    /\ hooks = {}
    /\ closed = {}
    /\ Idle

\* A handler that has outlived processTimeout stays hung.
NextQueue ==
    \/ Elapse
    \/ XReadGroup(Solo)
    \/ XPendingCount(Solo)
    \/ Claim(Solo)
    \/ FetchFails(Solo)
    \/ \E u \in UnitIds : StartUnit(u)
    \/ \E u \in UnitIds : SkipEvent(u)
    \/ \E u \in UnitIds : RejectEvent(u)
    \/ \E u \in UnitIds : ~units[u].late /\ HandlerAck(u)
    \/ \E u \in UnitIds : ~units[u].late /\ HandlerReturn(u)
    \/ \E u \in UnitIds : ~units[u].late /\ HandlerThrow(u)
    \/ \E u \in UnitIds : Timeout(u)

\* Time passes, both loops iterate, the pool runs its tasks and fires its
\* timers, Redis answers.  A handler may never finish.
FairQueue ==
    /\ WF_vars(Elapse)
    /\ WF_vars(XReadGroup(Solo))
    /\ WF_vars(XPendingCount(Solo))
    /\ WF_vars(Claim(Solo))
    /\ WF_vars(\E u \in UnitIds : StartUnit(u))
    /\ WF_vars(\E u \in UnitIds : SkipEvent(u))
    /\ WF_vars(\E u \in UnitIds : RejectEvent(u))
    /\ WF_vars(\E u \in UnitIds : Timeout(u))

SpecQueue == InitQueue /\ [][NextQueue]_vars /\ FairQueue

\* C36: with fetchBatchSize = 1 every record of the stream is eventually
\* read, and every entry of the pending list eventually leaves it,
\* acknowledged or dead-lettered: no pending entry stays there forever and
\* none keeps the entries behind it from being read or claimed.
C36_ForwardProgressOneByOne ==
    \A id \in 1..MaxQueue :
        /\ <>Delivered(id)
        /\ (id \in DOMAIN pel) ~> (id \notin DOMAIN pel)

\* ------------------------------------------------------------------ Backoff
MaxCalls == 4           \* calls made on one Backoff

\* minInterval and maxInterval as a caller passes them, minInterval <= maxInterval
Intervals == {0, 1, 2, 3, 5}
\* ackTimeout as a Subscriber config supplies it
AckTimeouts == {NotGiven, Given(0), Given(1000), Given(1500), Given(3000), Given(2000000)}

\* Math.min
Min(a, b) == IF a < b THEN a ELSE b

\* An increase that doubles without looking at maxInterval.
increaseUncapped ==
    /\ backoff.calls < MaxCalls
    /\ backoff' = [backoff EXCEPT !.currentInterval = backoff.currentInterval * 2,
                                  !.last = "increase", !.calls = @ + 1]
    /\ UNCHANGED <<core, subscriber, publisher, trimmer, config, retrier, decode, rejection, capability, listening, timers>>

\* Backoff.reset
reset ==
    /\ backoff.calls < MaxCalls
    /\ backoff' = [backoff EXCEPT !.currentInterval = backoff.minInterval,
                                  !.last = "reset", !.calls = @ + 1]
    /\ UNCHANGED <<core, subscriber, publisher, trimmer, config, retrier, decode, rejection, capability, listening, timers>>

\* Backoff.increase
increase ==
    /\ backoff.calls < MaxCalls
    /\ backoff' = [backoff EXCEPT
           !.currentInterval =
               IF backoff.currentInterval < backoff.maxInterval
               THEN Min(backoff.currentInterval * 2, backoff.maxInterval)
               ELSE backoff.currentInterval,
           !.last = "increase", !.calls = @ + 1]
    /\ UNCHANGED <<core, subscriber, publisher, trimmer, config, retrier, decode, rejection, capability, listening, timers>>

\* Backoff.wait: delayFunction(currentInterval) unless the interval is 0
wait ==
    /\ backoff.calls < MaxCalls
    /\ backoff' = [backoff EXCEPT
           !.slept = IF backoff.currentInterval > 0 THEN backoff.currentInterval ELSE @,
           !.last = "wait", !.calls = @ + 1]
    /\ UNCHANGED <<core, subscriber, publisher, trimmer, config, retrier, decode, rejection, capability, listening, timers>>

\* new Backoff({ minInterval, maxInterval }) by any caller, or by
\* FailedConsumer.constructor with 1 s and the subscriber's ackTimeout.
InitBackoff ==
    /\ Rest
    /\ NoComponents
    /\ capability = NoCapability
    /\ listening = NoListening
    /\ timers = NoTimers
    /\ retrier = NoRetrier
    /\ decode = NoDecode
    /\ rejection = NoRejection
    /\ \/ \E lo, hi \in Intervals : lo <= hi /\ backoff = NewBackoff(lo, hi)
       \/ \E a \in AckTimeouts : backoff = NewBackoff(1000, Field("ackTimeout", a))

NextBackoff == reset \/ increase \/ wait

SpecBackoff == InitBackoff /\ [][NextBackoff]_vars

MaxAckCalls == 3        \* calls a handler makes on the ack function of one delivery

\* The function returned by Processor.ackEvent is called: the call starts its
\* retrier.retry(() => redis.xack(stream, group, id)).  Nothing on the
\* function or on the event tells that it was called before.
ack ==
    /\ Len(capability.calls) < MaxAckCalls
    /\ capability' = [capability EXCEPT
           !.calls = Append(@, [pc |-> "xack", attempt |-> 0, reply |-> 0])]
    /\ UNCHANGED <<core, subscriber, publisher, trimmer, config, retrier, backoff, decode,
                   rejection, listening, timers>>

\* Redis executes the XACK of call i and replies with the number of entries
\* it removed from the pending list; the call then runs onEventConfirmed.
XAckReplies(i) ==
    /\ i \in DOMAIN capability.calls
    /\ capability.calls[i].pc = "xack"
    /\ capability' = [capability EXCEPT
           !.pending = FALSE,
           !.calls[i].pc = "confirmed",
           !.calls[i].reply = IF capability.pending THEN 1 ELSE 0]
    /\ UNCHANGED <<core, subscriber, publisher, trimmer, config, retrier, backoff, decode,
                   rejection, listening, timers>>

\* The XACK of call i rejects: the retrier tries again, and after its last
\* attempt ackEvent's catch logs the error.
XAckRejects(i) ==
    /\ i \in DOMAIN capability.calls
    /\ capability.calls[i].pc = "xack"
    /\ capability' = [capability EXCEPT
           !.calls[i] = IF lastAttempt(capability.calls[i].attempt)
                        THEN [@ EXCEPT !.pc = "logged"]
                        ELSE [@ EXCEPT !.attempt = @ + 1]]
    /\ UNCHANGED <<core, subscriber, publisher, trimmer, config, retrier, backoff, decode,
                   rejection, listening, timers>>

\* One event has been delivered and its handler holds the ack function.
InitAck ==
    /\ Rest
    /\ NoComponents
    /\ NoTools

NextAck ==
    \/ ack
    \/ \E i \in 1..MaxAckCalls : XAckReplies(i)
    \/ \E i \in 1..MaxAckCalls : XAckRejects(i)

SpecAck == InitAck /\ [][NextAck]_vars

\* the calls whose XACK reached the log, each followed by a CONFIRMED hook
Confirmations == { i \in DOMAIN capability.calls : capability.calls[i].pc = "confirmed" }

\* C38: the ack function of one delivery is one-shot: however many times the
\* handler calls it, at most one acknowledgement reaches the log and the
\* CONFIRMED hook is emitted at most once.
C38_AckIsOneShot ==
    Cardinality(Confirmations) <= 1

\* ------------------------------------------- listen and stop, call by call
MaxListens == 3         \* listen calls on one subscriber

\* new LiveConsumer / new FailedConsumer: not enabled, no loop
NewConsumers == [enabled |-> FALSE, live |-> 0, failed |-> 0]

\* LiveConsumer.consume and FailedConsumer.consume: a consumer that is not
\* enabled sets its flag and starts one more loop; an enabled one does nothing.
consume(c) ==
    IF c.enabled THEN c
    ELSE [enabled |-> TRUE, live |-> c.live + 1, failed |-> c.failed + 1]

\* Subscriber.listen up to its await: when the subscriber is not enabled both
\* consumer fields are overwritten with new consumers and createGroup() is
\* awaited; when it is enabled the call returns.
listenEnters ==
    /\ listening.listens < MaxListens
    /\ listening' =
         IF listening.enabled
         THEN [listening EXCEPT !.listens = @ + 1]
         ELSE [listening EXCEPT
                 !.listens = @ + 1,
                 !.consumers = Append(@, NewConsumers),
                 !.current = Len(listening.consumers) + 1,
                 !.resuming = @ + 1]
    /\ UNCHANGED <<core, subscriber, publisher, trimmer, config, retrier, backoff, decode,
                   rejection, capability, timers>>

\* Subscriber.listen after its await: consume() on the consumers the fields
\* refer to now, then enabled = true.
listenResumes ==
    /\ listening.resuming > 0
    /\ listening' = [listening EXCEPT
           !.resuming = @ - 1,
           !.consumers[listening.current] = consume(@),
           !.enabled = TRUE]
    /\ UNCHANGED <<core, subscriber, publisher, trimmer, config, retrier, backoff, decode,
                   rejection, capability, timers>>

\* Subscriber.stop up to its await: when enabled, stop() of both consumers
\* the fields refer to clears their flag and Promise.allSettled is awaited;
\* when not enabled nothing is done.
stopEnters ==
    /\ listening.stops < MaxStops
    /\ listening' =
         IF listening.enabled
         THEN [listening EXCEPT
                 !.stops = @ + 1,
                 !.consumers[listening.current].enabled = FALSE,
                 !.stopping = @ + 1]
         ELSE [listening EXCEPT !.stops = @ + 1]
    /\ UNCHANGED <<core, subscriber, publisher, trimmer, config, retrier, backoff, decode,
                   rejection, capability, timers>>

\* Subscriber.stop after its await: redis.quit(resolve), enabled = false.
stopResumes ==
    /\ listening.stopping > 0
    /\ listening' = [listening EXCEPT
           !.stopping = @ - 1, !.quit = TRUE, !.enabled = FALSE]
    /\ UNCHANGED <<core, subscriber, publisher, trimmer, config, retrier, backoff, decode,
                   rejection, capability, timers>>

\* A live loop finishes an iteration and tests while (this.enabled): it ends
\* when the flag is clear at that moment.
LiveLoopEnds(c) ==
    /\ c \in DOMAIN listening.consumers
    /\ listening.consumers[c].live > 0
    /\ ~listening.consumers[c].enabled
    /\ listening' = [listening EXCEPT !.consumers[c].live = @ - 1]
    /\ UNCHANGED <<core, subscriber, publisher, trimmer, config, retrier, backoff, decode,
                   rejection, capability, timers>>

\* A pending loop finishes an iteration with its flag clear, or its XPENDING
\* rejects on the closed connection and the loop ends on the error.
PendingLoopEnds(c) ==
    /\ c \in DOMAIN listening.consumers
    /\ listening.consumers[c].failed > 0
    /\ ~listening.consumers[c].enabled \/ listening.quit
    /\ listening' = [listening EXCEPT !.consumers[c].failed = @ - 1]
    /\ UNCHANGED <<core, subscriber, publisher, trimmer, config, retrier, backoff, decode,
                   rejection, capability, timers>>

InitListening ==
    /\ Rest
    /\ NoComponents
    /\ NoTools

NextListening ==
    \/ listenEnters
    \/ listenResumes
    \/ stopEnters
    \/ stopResumes
    \/ \E c \in 1..MaxListens : LiveLoopEnds(c)
    \/ \E c \in 1..MaxListens : PendingLoopEnds(c)

SpecListening == InitListening /\ [][NextListening]_vars

\* the loops that go on iterating: those of consumers whose flag is set
RECURSIVE Iterating(_, _)
Iterating(kind, n) ==
    IF n = 0 THEN 0
    ELSE Iterating(kind, n - 1)
         + (IF listening.consumers[n].enabled
            THEN (IF kind = "live" THEN listening.consumers[n].live
                                   ELSE listening.consumers[n].failed)
            ELSE 0)

\* C39: however listen is called, the subscriber never has more than one
\* live loop and one pending loop iterating, and once a stop has completed
\* with no call in progress no loop goes on iterating.
C39_OneLoopEachAndStopped ==
    /\ Iterating("live", Len(listening.consumers)) <= 1
    /\ Iterating("failed", Len(listening.consumers)) <= 1
    /\ (listening.quit /\ ~listening.enabled
        /\ listening.resuming = 0 /\ listening.stopping = 0)
       => Iterating("live", Len(listening.consumers)) = 0

\* ------------------------------------------------------- the trimmer's timers
\* intervalTime as a Trimmer config supplies it
IntervalTimes ==
    {NotGiven, Given(5000), Given(10000), Given(20000), Given(30000), Given(31000),
     Given(60000)}

\* Trimmer.getRandomInterval, r being Math.floor(Math.random() * 60)
getRandomInterval(r) == timers.intervalTime + (r - 30) * 1000

\* Trimmer.getInitialDelay, r being Math.floor(Math.random() * 10 + 1)
getInitialDelay(r) == r * 1000

\* Trimmer.start: setTimeout(trim, getInitialDelay()) and
\* setInterval(trim, getRandomInterval())
start ==
    /\ ~timers.started
    /\ \E d \in 1..10 : \E r \in 0..59 :
         timers' = [timers EXCEPT !.started = TRUE,
                                  !.timeout = getInitialDelay(d),
                                  !.interval = getRandomInterval(r)]
    /\ UNCHANGED <<core, subscriber, publisher, trimmer, config, retrier, backoff, decode,
                   rejection, capability, listening>>

\* new Trimmer(config) with any intervalTime
InitTimers ==
    /\ Rest
    /\ NoComponents
    /\ retrier = NoRetrier
    /\ backoff = NoBackoff
    /\ decode = NoDecode
    /\ rejection = NoRejection
    /\ capability = NoCapability
    /\ listening = NoListening
    /\ \E v \in IntervalTimes : timers = NewTimers(v)

SpecTimers == InitTimers /\ [][start]_vars

\* C40: whatever intervalTime the trimmer was built with, the delay of the
\* periodic timer that start() schedules is strictly positive.
C40_PeriodicIntervalPositive ==
    timers.started => timers.interval > 0
====
